---- MODULE Spec2Model ----
(***************************************************************************)
(* MixedContentsManager (eginotebooks/manager.py): a contents manager that *)
(* routes every contents operation either to one of the managers mounted   *)
(* under the virtual prefix `mixed_path` or to the base class              *)
(* (LargeFileManager), the default backend.                                *)
(*                                                                         *)
(* A Python string is a sequence of tokens: the separator "/" or a name    *)
(* atom; a path segment is a run of atoms.  A Python value is a record     *)
(* tagged with its type; a dict is a TLA+ record whose DOMAIN is its keys. *)
(* A call that leaves the router (to a mounted manager or to the base      *)
(* class) is appended to `calls`; what it answers is chosen by the         *)
(* environment.                                                            *)
(***************************************************************************)
EXTENDS Integers, Sequences, FiniteSets, TLC

VARIABLES
    pc,                 \* "new", "super", "build", "failed", "ready", "returned"
    filesystem_scheme,  \* the configured scheme: the sequence of its "root" names
    managers,           \* self.managers: root name -> manager instance
    instantiated,       \* the manager instances constructed so far, in order
    request,            \* the operation in progress and its arguments
    calls,              \* the calls that operation made on backends, in order
    result              \* what the operation returned or raised

vars == <<pc, filesystem_scheme, managers, instantiated, request, calls, result>>

----------------------------------------------------------------------------
(* Bounds *)

MaxMounts == 2      \* entries of filesystem_scheme
MaxSegs == 3        \* segments of a caller's path
MaxChildren == 1    \* entries under a directory model's content
MaxTime == 2        \* timestamps are 1..MaxTime

----------------------------------------------------------------------------
(* Python values *)

NoneVal == [tag |-> "None"]
BoolVal(b) == [tag |-> "bool", b |-> b]
StrVal(s) == [tag |-> "str", s |-> s]
ListVal(l) == [tag |-> "list", items |-> l]
DictVal(d) == [tag |-> "dict", d |-> d]

Return(v) == [kind |-> "return", value |-> v]
Raise(e, who) == [kind |-> "raise", exc |-> e, by |-> who]

\* d with d[k] = v, the key added when absent
SetItem(d, k, v) == (k :> v) @@ d

----------------------------------------------------------------------------
(* Python string operations *)

SEP == "/"

RECURSIVE LStrip(_)
LStrip(s) == IF Len(s) > 0 /\ Head(s) = SEP THEN LStrip(Tail(s)) ELSE s

RECURSIVE RStrip(_)
RStrip(s) ==
    IF Len(s) > 0 /\ s[Len(s)] = SEP THEN RStrip(SubSeq(s, 1, Len(s) - 1)) ELSE s

Strip(s) == RStrip(LStrip(s))

\* s.split("/"): never empty; "" splits to [""]
RECURSIVE Split(_)
Split(s) ==
    IF Len(s) = 0 THEN << <<>> >>
    ELSE IF Head(s) = SEP THEN << <<>> >> \o Split(Tail(s))
    ELSE LET r == Split(Tail(s)) IN << <<Head(s)>> \o Head(r) >> \o Tail(r)

\* "/".join(segs)
RECURSIVE Join(_)
Join(segs) ==
    IF Len(segs) = 0 THEN <<>>
    ELSE IF Len(segs) = 1 THEN segs[1]
    ELSE segs[1] \o <<SEP>> \o Join(Tail(segs))

\* os.path.join(a, b) on POSIX
PathJoin(a, b) ==
    IF Len(b) > 0 /\ Head(b) = SEP THEN b
    ELSE IF Len(a) = 0 \/ a[Len(a)] = SEP THEN a \o b
    ELSE a \o <<SEP>> \o b

\* _split_path without the pop(0) of the sentinel
_split_path_nopop(path) ==
    LET p == Strip(path)
        list_path == Split(p)
    IN  [sentinel |-> Head(list_path), listpath |-> list_path, path |-> p]

\* _split_path without the strip("/")
_split_path_nostrip(path) ==
    LET list_path == Split(path)
    IN  [sentinel |-> Head(list_path), listpath |-> Tail(list_path), path |-> path]

_split_path(path) ==
    LET p == Strip(path)
        list_path == Split(p)
    IN  [sentinel |-> Head(list_path), listpath |-> Tail(list_path), path |-> p]

----------------------------------------------------------------------------
(* Configuration *)

mixed_path == <<"datahub">>

MountNames == {<<"space1">>, <<"space2">>}

RECURSIVE SeqsUpTo(_, _)
SeqsUpTo(S, n) ==
    IF n = 0 THEN {<<>>}
    ELSE LET shorter == SeqsUpTo(S, n - 1)
         IN  shorter \cup {Append(s, x) : s \in {t \in shorter : Len(t) = n - 1}, x \in S}

Schemes == SeqsUpTo(MountNames, MaxMounts)

\* the consistency check comparing the wrong way round
HasDuplicateRoots_gt(scheme) ==
    Cardinality({scheme[i] : i \in DOMAIN scheme}) > Len(scheme)

\* len(set(map(lambda x: x["root"], scheme))) == len(scheme) fails
HasDuplicateRoots(scheme) ==
    Cardinality({scheme[i] : i \in DOMAIN scheme}) # Len(scheme)

----------------------------------------------------------------------------
(* Manager handles *)

NoManager == [tag |-> "None"]
Manager(i) == [tag |-> "cm", inst |-> i]
Super == [tag |-> "super"]

\* self.managers.get(key, None)
ManagersGet(key) == IF key \in DOMAIN managers THEN managers[key] ELSE NoManager

NoRequest == [op |-> "none"]

Init ==
    /\ pc = "new"
    /\ filesystem_scheme \in Schemes
    /\ managers = [k \in {} |-> NoManager]
    /\ instantiated = <<>>
    /\ request = NoRequest
    /\ calls = <<>>
    /\ result = Return(NoneVal)

\* super().__init__(**kwargs); self.managers = {}
InitSuper ==
    /\ pc = "new"
    /\ pc' = "super"
    /\ instantiated' = Append(instantiated, Super)
    /\ managers' = [k \in {} |-> NoManager]
    /\ UNCHANGED <<filesystem_scheme, request, calls, result>>

\* the consistency check of the scheme
InitCheck ==
    /\ pc = "super"
    /\ IF HasDuplicateRoots(filesystem_scheme)
       THEN /\ pc' = "failed"
            /\ result' = Raise("ValueError", "router")
       ELSE /\ pc' = "build"
            /\ UNCHANGED result
    /\ UNCHANGED <<filesystem_scheme, managers, instantiated, request, calls>>

\* one turn of the loop over the scheme: the i-th manager is constructed and mounted
InitMount ==
    /\ pc = "build"
    /\ Len(instantiated) <= Len(filesystem_scheme)
    /\ LET i == Len(instantiated)
       IN  /\ instantiated' = Append(instantiated, Manager(i))
           /\ managers' = SetItem(managers, filesystem_scheme[i], Manager(i))
    /\ UNCHANGED <<pc, filesystem_scheme, request, calls, result>>

\* the loop is over: construction returns
InitDone ==
    /\ pc = "build"
    /\ Len(instantiated) > Len(filesystem_scheme)
    /\ pc' = "ready"
    /\ UNCHANGED <<filesystem_scheme, managers, instantiated, request, calls, result>>

----------------------------------------------------------------------------
(* What callers pass and what backends answer *)

SegNames == {<<"datahub">>, <<"space1">>, <<"space2">>, <<"x">>}

Slashes == {<<>>, <<SEP>>}

\* a caller's path: up to MaxSegs segments, with or without surrounding separators
Paths ==
    {lead \o Join(segs) \o trail :
        lead \in Slashes, trail \in Slashes, segs \in SeqsUpTo(SegNames, MaxSegs)}

Times == 1..MaxTime

\* entries of a directory model's content, as a backend names them
Children ==
    {[name |-> <<"c">>]}
        \cup {[name |-> <<"c">>, path |-> p] : p \in {<<"c">>, <<SEP, "c">>}}

Contents == {NoneVal} \cup {ListVal(s) : s \in SeqsUpTo(Children, MaxChildren)}

\* backend-local paths a mounted manager may put in a model
BackendPaths == {<<>>, <<"x">>, <<SEP, "x">>}

\* the models a mounted manager may answer
Models ==
    {[type |-> t, content |-> c] : t \in {"file", "directory"}, c \in Contents}
        \cup {[type |-> t, content |-> c, path |-> p] :
                t \in {"file", "directory"}, c \in Contents, p \in BackendPaths}

\* the models the base class may answer
BaseModels ==
    { [type |-> "file", content |-> NoneVal, path |-> <<"x">>],
      [type |-> "directory", content |-> NoneVal, path |-> <<>>],
      [type |-> "directory", path |-> <<>>,
       content |-> ListVal(<<[name |-> <<"c">>, path |-> <<"c">>]>>)] }

\* a mounted manager's answers to get("/")
RootModels ==
    {[type |-> "directory", name |-> <<>>, path |-> <<>>,
      content |-> ListVal(<<[name |-> <<"c">>, path |-> <<"c">>]>>),
      last_modified |-> t, created |-> c] : t \in Times, c \in Times}

BackendError == Raise("BackendError", "backend")

\* the caller's other argument: a model to save, a checkpoint id
SaveModels == {DictVal([type |-> "file", content |-> StrVal(<<"x">>)])}
CheckpointIds == {StrVal(<<"cp1">>), StrVal(<<"cp2">>)}
Checkpoint == [id |-> <<"cp1">>, last_modified |-> 1]

\* keyword arguments a caller passes to get
GetKwargs == {{}, {<<"content", BoolVal(FALSE)>>}}

BoolOps == {"dir_exists", "is_hidden", "file_exists", "exists"}
ModelOps == {"get", "save", "update"}

\* the methods the base class defines (the contents API)
BaseMethods ==
    {"dir_exists", "is_hidden", "file_exists", "exists", "get", "save", "update",
     "delete", "create_checkpoint", "list_checkpoints", "restore_checkpoint",
     "delete_checkpoint", "rename", "rename_file"}

----------------------------------------------------------------------------
(* The router *)

\* what an operation did: the backend calls it made and what it returned or raised
Effect(c, r) == [calls |-> c, result |-> r]

\* a call on a backend and what the backend answered
Call(target, name, args, kwargs, answer) ==
    [target |-> target, op |-> name, args |-> args, kwargs |-> kwargs, answer |-> answer]

\* getattr(man, name)(*args, **kwargs), answered by resp
Invoke(man, name, args, kwargs, resp) ==
    Effect(<<Call(man, name, args, kwargs, resp)>>, resp)

\* super(MixedContentsManager, self).name(*args, **kwargs), answered by resp
SuperInvoke(name, args, kwargs, resp) ==
    IF name \in BaseMethods
    THEN Invoke(Super, name, args, kwargs, resp)
    ELSE Effect(<<>>, Raise("AttributeError", "router"))

FixChild(e, base_path) ==
    IF "path" \in DOMAIN e
    THEN [e EXCEPT !.path = PathJoin(base_path, LStrip(e.path))]
    ELSE e

_fix_paths(sub, base_path) ==
    IF sub.tag # "dict" THEN sub
    ELSE
        LET d0 == sub.d
            d1 == IF "path" \in DOMAIN d0
                  THEN [d0 EXCEPT !.path = PathJoin(base_path, d0.path)]
                  ELSE d0
            isdir == "type" \in DOMAIN d1 /\ d1.type = "directory"
            truthy == /\ "content" \in DOMAIN d1
                      /\ d1.content.tag = "list"
                      /\ Len(d1.content.items) > 0
        IN  IF isdir /\ truthy
            THEN DictVal([d1 EXCEPT !.content =
                    ListVal([i \in DOMAIN d1.content.items |->
                                FixChild(d1.content.items[i], base_path)])])
            ELSE DictVal(d1)

_get_cm(sentinel, listpath) ==
    IF sentinel # mixed_path \/ Len(listpath) = 0
    THEN NoManager
    ELSE ManagersGet(listpath[1])

\* the result of a call delegated to a mounted manager
Rewritten(eff, base_path) ==
    IF eff.result.kind = "return"
    THEN Effect(eff.calls, Return(_fix_paths(eff.result.value, base_path)))
    ELSE eff

dir_exists_method(path, kwargs, env) ==
    IF Len(path) = 0 \/ path = mixed_path
    THEN Effect(<<>>, Return(BoolVal(TRUE)))
    ELSE SuperInvoke("dir_exists", <<StrVal(PathJoin(<<SEP>>, path))>>, {}, env.resp)

is_hidden_method(path, kwargs, env) ==
    IF Len(path) = 0 \/ path = mixed_path
    THEN Effect(<<>>, Return(BoolVal(FALSE)))
    ELSE SuperInvoke("is_hidden", <<StrVal(PathJoin(<<SEP>>, path))>>, {}, env.resp)

\* file_exists answering as dir_exists does on the root
file_exists_method_true(path, env) ==
    IF Len(path) = 0 \/ path = mixed_path
    THEN Effect(<<>>, Return(BoolVal(TRUE)))
    ELSE SuperInvoke("file_exists", <<StrVal(PathJoin(<<SEP>>, path))>>, {}, env.resp)

file_exists_method(path, env) ==
    IF Len(path) = 0 \/ path = mixed_path
    THEN Effect(<<>>, Return(BoolVal(FALSE)))
    ELSE SuperInvoke("file_exists", <<StrVal(PathJoin(<<SEP>>, path))>>, {}, env.resp)

exists_method(path, kwargs, env) ==
    IF Len(path) = 0 \/ path = mixed_path
    THEN Effect(<<>>, Return(BoolVal(TRUE)))
    ELSE SuperInvoke("exists", <<StrVal(PathJoin(<<SEP>>, path))>>, {}, env.resp)

\* max(lm), min(lm) of a non-empty list
RECURSIVE Max(_)
Max(l) == IF Len(l) = 1 THEN l[1]
          ELSE LET m == Max(Tail(l)) IN IF l[1] >= m THEN l[1] ELSE m

RECURSIVE Min(_)
Min(l) == IF Len(l) = 1 THEN l[1]
          ELSE LET m == Min(Tail(l)) IN IF l[1] <= m THEN l[1] ELSE m

\* the loop over self.managers.items() from the i-th mount on: acc holds the
\* entries appended to root["content"], lm and the calls made so far
RECURSIVE MountEntries(_, _, _, _)
MountEntries(i, kwargs, roots, acc) ==
    IF i > Len(filesystem_scheme) THEN acc
    ELSE
        LET subpath == filesystem_scheme[i]
            manager == managers[subpath]
            answer == roots[i]
            called == acc.calls \o <<Call(manager, "get", <<StrVal(<<SEP>>)>>, kwargs, answer)>>
        IN  IF answer.kind = "raise"
            THEN MountEntries(i + 1, kwargs, roots, [acc EXCEPT !.calls = called])
            ELSE
                LET d == SetItem(SetItem(SetItem(answer.value.d,
                            "content", NoneVal),
                            "name", subpath),
                            "path", PathJoin(mixed_path, subpath))
                IN  MountEntries(i + 1, kwargs, roots,
                        [content |-> Append(acc.content, d),
                         lm |-> Append(acc.lm, d.last_modified),
                         calls |-> called])

\* MixedRoot with min and max exchanged
MixedRoot_swapped(kwargs, roots) ==
    LET got == MountEntries(1, kwargs, roots, [content |-> <<>>, lm |-> <<>>, calls |-> <<>>])
        root == [type |-> "directory", name |-> mixed_path, path |-> mixed_path,
                 content |-> ListVal(got.content),
                 last_modified |-> NoneVal, created |-> NoneVal,
                 format |-> "json", mimetype |-> NoneVal, size |-> NoneVal,
                 writable |-> FALSE]
    IN  IF Len(got.lm) = 0
        THEN Effect(got.calls, Raise("ValueError", "router"))
        ELSE Effect(got.calls,
                    Return(DictVal([root EXCEPT !.last_modified = Min(got.lm),
                                                !.created = Max(got.lm)])))

\* get on the bare virtual prefix: one entry per mounted manager
MixedRoot(kwargs, roots) ==
    LET got == MountEntries(1, kwargs, roots, [content |-> <<>>, lm |-> <<>>, calls |-> <<>>])
        root == [type |-> "directory", name |-> mixed_path, path |-> mixed_path,
                 content |-> ListVal(got.content),
                 last_modified |-> NoneVal, created |-> NoneVal,
                 format |-> "json", mimetype |-> NoneVal, size |-> NoneVal,
                 writable |-> FALSE]
    IN  IF Len(got.lm) = 0
        THEN Effect(got.calls, Raise("ValueError", "router"))
        ELSE Effect(got.calls,
                    Return(DictVal([root EXCEPT !.last_modified = Max(got.lm),
                                                !.created = Min(got.lm)])))

\* get on the empty path: the base class's root with an entry for the virtual prefix
BaseRoot(kwargs, resp) ==
    LET eff == SuperInvoke("get", <<StrVal(<<SEP>>)>>, kwargs, resp)
        entry == [type |-> "directory", name |-> mixed_path, path |-> mixed_path]
    IN  IF eff.result.kind = "raise" THEN eff
        ELSE LET root == eff.result.value.d
             IN  IF "content" \notin DOMAIN root
                 THEN Effect(eff.calls, Raise("KeyError", "router"))
                 ELSE IF root.content.tag # "list"
                 THEN Effect(eff.calls, Raise("AttributeError", "router"))
                 ELSE Effect(eff.calls, Return(DictVal(
                        [root EXCEPT !.content = ListVal(Append(root.content.items, entry))])))

get_method(path, kwargs, env) ==
    IF Len(path) = 0 THEN BaseRoot(kwargs, env.resp)
    ELSE IF path = mixed_path THEN MixedRoot(kwargs, env.roots)
    ELSE SuperInvoke("get", <<StrVal(PathJoin(<<SEP>>, path))>>, kwargs, env.resp)

save_method(model, path, env) ==
    SuperInvoke("save", <<model, StrVal(path)>>, {}, env.resp)

\* update without the comparison of the two managers
update_unguarded(model, path, env) ==
    LET sp == _split_path(path)
        m == _split_path(model.d.path)
        man == _get_cm(sp.sentinel, sp.listpath)
    IN  IF man # NoManager
        THEN Rewritten(
                Invoke(man, "update",
                       <<DictVal([model.d EXCEPT !.path = Join(Tail(m.listpath))]),
                         StrVal(Join(Tail(sp.listpath)))>>, {}, env.resp),
                PathJoin(sp.sentinel, sp.listpath[1]))
        ELSE SuperInvoke("update", <<model, StrVal(path)>>, {}, env.resp)

update(model, path, env) ==
    LET sp == _split_path(path)
        m == _split_path(model.d.path)
        man == _get_cm(sp.sentinel, sp.listpath)
        m_man == _get_cm(m.sentinel, m.listpath)
    IN  IF man # m_man
        THEN Effect(<<>>, Raise("ValueError", "router"))
        ELSE IF man # NoManager
        THEN Rewritten(
                Invoke(man, "update",
                       <<DictVal([model.d EXCEPT !.path = Join(Tail(m.listpath))]),
                         StrVal(Join(Tail(sp.listpath)))>>, {}, env.resp),
                PathJoin(sp.sentinel, sp.listpath[1]))
        ELSE SuperInvoke("update", <<model, StrVal(path)>>, {}, env.resp)

delete_method(path, kwargs, env) ==
    SuperInvoke("delete", <<StrVal(path)>>, {}, env.resp)

create_checkpoint_method(path, kwargs, env) ==
    SuperInvoke("create_checkpoint", <<StrVal(path)>>, {}, env.resp)

list_checkpoints_method(path, kwargs, env) ==
    SuperInvoke("list_checkpoints", <<StrVal(path)>>, {}, env.resp)

restore_checkpoint_method(checkpoint_id, path, env) ==
    SuperInvoke("restore_checkpoints", <<StrVal(path)>>, {}, env.resp)

delete_checkpoint_method(checkpoint_id, path, env) ==
    SuperInvoke("delete_checkpoints", <<StrVal(path)>>, {}, env.resp)

\* the method self.fix_path, which the class does not define
fix_path(sentinel, sub) == Raise("AttributeError", "router")

rename_file_method(old_path, new_path, env) ==
    SuperInvoke("rename_file", <<StrVal(old_path), StrVal(new_path)>>, {}, env.resp)

rename_method(old_path, new_path, env) ==
    SuperInvoke("rename", <<StrVal(old_path), StrVal(new_path)>>, {}, env.resp)

\* method(self, path, *args, **kwargs): the method a path_dispatch1 wrapper decorates
method1(name, path, kwargs, env) ==
    CASE name = "dir_exists" -> dir_exists_method(path, kwargs, env)
      [] name = "is_hidden" -> is_hidden_method(path, kwargs, env)
      [] name = "exists" -> exists_method(path, kwargs, env)
      [] name = "get" -> get_method(path, kwargs, env)
      [] name = "delete" -> delete_method(path, kwargs, env)
      [] name = "create_checkpoint" -> create_checkpoint_method(path, kwargs, env)
      [] name = "list_checkpoints" -> list_checkpoints_method(path, kwargs, env)

\* method(self, other, path, *args, **kwargs): the method a path_dispatch2 wrapper decorates
method2(name, other, path, env) ==
    CASE name = "save" -> save_method(other, path, env)
      [] name = "restore_checkpoint" -> restore_checkpoint_method(other, path, env)
      [] name = "delete_checkpoint" -> delete_checkpoint_method(other, path, env)

\* method(self, path=path): the method a path_dispatch_kwarg wrapper decorates
method_kwarg(name, path, env) ==
    CASE name = "file_exists" -> file_exists_method(path, env)

\* rename_like_method(self, old_path, new_path)
rename_like_method(name, old_path, new_path, env) ==
    CASE name = "rename_file" -> rename_file_method(old_path, new_path, env)
      [] name = "rename" -> rename_method(old_path, new_path, env)

path_dispatch1(name, path, kwargs, env) ==
    LET sp == _split_path(path)
        man == _get_cm(sp.sentinel, sp.listpath)
    IN  IF man # NoManager
        THEN Rewritten(
                Invoke(man, name, <<StrVal(Join(Tail(sp.listpath)))>>, kwargs, env.resp),
                PathJoin(sp.sentinel, sp.listpath[1]))
        ELSE method1(name, sp.path, kwargs, env)

path_dispatch2(name, other, path, env) ==
    LET sp == _split_path(path)
        man == _get_cm(sp.sentinel, sp.listpath)
    IN  IF man # NoManager
        THEN Rewritten(
                Invoke(man, name, <<other, StrVal(Join(Tail(sp.listpath)))>>, {}, env.resp),
                PathJoin(sp.sentinel, sp.listpath[1]))
        ELSE method2(name, other, sp.path, env)

path_dispatch_kwarg(name, path, env) ==
    LET sp == _split_path(path)
        man == _get_cm(sp.sentinel, sp.listpath)
    IN  IF man # NoManager
        THEN Rewritten(
                Invoke(man, name, <<>>,
                       {<<"path", StrVal(Join(Tail(sp.listpath)))>>}, env.resp),
                PathJoin(sp.sentinel, sp.listpath[1]))
        ELSE method_kwarg(name, sp.path, env)

path_dispatch_rename(name, old_path, new_path, env) ==
    LET old == _split_path(old_path)
        new == _split_path(new_path)
        \* the names the source binds: the third component of _split_path
        old_sentinel == old.path
        new_sentinel == new.path
        _old_path == old.listpath
        _new_path == new.listpath
    IN  IF old_sentinel # new_sentinel
        THEN Effect(<<>>, Raise("ValueError", "router"))
        ELSE
            LET sentinel == new_sentinel
                man == ManagersGet(sentinel)
            IN  IF man # NoManager
                THEN LET eff == Invoke(man, name,
                                    <<StrVal(Join(_old_path)), StrVal(Join(_new_path))>>,
                                    {}, env.resp)
                     IN  IF eff.result.kind = "raise" THEN eff
                         ELSE Effect(eff.calls, fix_path(sentinel, eff.result.value))
                ELSE rename_like_method(name, old_path, new_path, env)

dir_exists(path, env) == path_dispatch1("dir_exists", path, {}, env)

is_hidden(path, env) == path_dispatch1("is_hidden", path, {}, env)

file_exists(path, env) == path_dispatch_kwarg("file_exists", path, env)

exists(path, env) == path_dispatch1("exists", path, {}, env)

get(path, kwargs, env) == path_dispatch1("get", path, kwargs, env)

save(model, path, env) == path_dispatch2("save", model, path, env)

delete(path, env) == path_dispatch1("delete", path, {}, env)

create_checkpoint(path, env) ==
    path_dispatch1("create_checkpoint", path, {}, env)

list_checkpoints(path, env) ==
    path_dispatch1("list_checkpoints", path, {}, env)

restore_checkpoint(checkpoint_id, path, env) ==
    path_dispatch2("restore_checkpoint", checkpoint_id, path, env)

delete_checkpoint(checkpoint_id, path, env) ==
    path_dispatch2("delete_checkpoint", checkpoint_id, path, env)

rename_file(old_path, new_path, env) ==
    path_dispatch_rename("rename_file", old_path, new_path, env)

rename(old_path, new_path, env) ==
    path_dispatch_rename("rename", old_path, new_path, env)

----------------------------------------------------------------------------
(* One operation at a time: a call is made on the constructed router, runs  *)
(* to its end, and the caller takes the result.                             *)

NoEnvRoots == <<>>

Env(resp) == [resp |-> resp, roots |-> NoEnvRoots]

\* the manager the path is delegated to, NoManager when it falls to the base class
Resolve(path) == LET sp == _split_path(path) IN _get_cm(sp.sentinel, sp.listpath)

\* the answers the environment may give to operation op called with path
Answers(op, path) ==
    {BackendError} \cup
    CASE op \in BoolOps -> {Return(BoolVal(b)) : b \in BOOLEAN}
      [] op \in ModelOps ->
            IF Resolve(path) # NoManager
            THEN {Return(DictVal(m)) : m \in Models}
            ELSE {Return(DictVal(m)) : m \in BaseModels}
      [] op = "create_checkpoint" -> {Return(DictVal(Checkpoint))}
      [] op = "list_checkpoints" -> {Return(ListVal(<<Checkpoint>>))}
      [] OTHER -> {Return(NoneVal)}

Complete(req, eff) ==
    /\ pc' = "returned"
    /\ request' = req
    /\ calls' = eff.calls
    /\ result' = eff.result
    /\ UNCHANGED <<filesystem_scheme, managers, instantiated>>

Request1(op, path, kwargs) == [op |-> op, path |-> path, other |-> NoneVal, kwargs |-> kwargs]
Request2(op, other, path) == [op |-> op, path |-> path, other |-> other, kwargs |-> {}]

DirExists ==
    /\ pc = "ready"
    /\ \E path \in Paths : \E resp \in Answers("dir_exists", path) :
        Complete(Request1("dir_exists", path, {}), dir_exists(path, Env(resp)))

IsHidden ==
    /\ pc = "ready"
    /\ \E path \in Paths : \E resp \in Answers("is_hidden", path) :
        Complete(Request1("is_hidden", path, {}), is_hidden(path, Env(resp)))

FileExists ==
    /\ pc = "ready"
    /\ \E path \in Paths : \E resp \in Answers("file_exists", path) :
        Complete(Request1("file_exists", path, {}), file_exists(path, Env(resp)))

Exists ==
    /\ pc = "ready"
    /\ \E path \in Paths : \E resp \in Answers("exists", path) :
        Complete(Request1("exists", path, {}), exists(path, Env(resp)))

\* what the mounted managers answer, one by one, to get("/")
RootAnswers ==
    [1..Len(filesystem_scheme) -> {BackendError} \cup {Return(DictVal(m)) : m \in RootModels}]

GetEnvs(path) ==
    IF Strip(path) = mixed_path
    THEN {[resp |-> Return(NoneVal), roots |-> r] : r \in RootAnswers}
    ELSE {Env(resp) : resp \in Answers("get", path)}

Get ==
    /\ pc = "ready"
    /\ \E path \in Paths : \E kwargs \in GetKwargs : \E env \in GetEnvs(path) :
        Complete(Request1("get", path, kwargs), get(path, kwargs, env))

Save ==
    /\ pc = "ready"
    /\ \E path \in Paths : \E model \in SaveModels : \E resp \in Answers("save", path) :
        Complete(Request2("save", model, path), save(model, path, Env(resp)))

Delete ==
    /\ pc = "ready"
    /\ \E path \in Paths : \E resp \in Answers("delete", path) :
        Complete(Request1("delete", path, {}), delete(path, Env(resp)))

CreateCheckpoint ==
    /\ pc = "ready"
    /\ \E path \in Paths : \E resp \in Answers("create_checkpoint", path) :
        Complete(Request1("create_checkpoint", path, {}), create_checkpoint(path, Env(resp)))

ListCheckpoints ==
    /\ pc = "ready"
    /\ \E path \in Paths : \E resp \in Answers("list_checkpoints", path) :
        Complete(Request1("list_checkpoints", path, {}), list_checkpoints(path, Env(resp)))

RestoreCheckpoint ==
    /\ pc = "ready"
    /\ \E path \in Paths : \E id \in CheckpointIds :
        \E resp \in Answers("restore_checkpoint", path) :
            Complete(Request2("restore_checkpoint", id, path),
                     restore_checkpoint(id, path, Env(resp)))

DeleteCheckpoint ==
    /\ pc = "ready"
    /\ \E path \in Paths : \E id \in CheckpointIds :
        \E resp \in Answers("delete_checkpoint", path) :
            Complete(Request2("delete_checkpoint", id, path),
                     delete_checkpoint(id, path, Env(resp)))

\* the paths of a two-path call: every way two paths can lie with respect to the
\* virtual prefix and the mounts, in both spellings of the leading separator
PairPaths ==
    { <<>>, <<"x">>, <<SEP, "x">>, <<"y">>, <<"space1">>, <<"datahub">>,
      <<"datahub", SEP, "x">>,
      <<"datahub", SEP, "space1">>,
      <<"datahub", SEP, "space1", SEP, "x">>,
      <<SEP, "datahub", SEP, "space1", SEP, "x">>,
      <<"datahub", SEP, "space1", SEP, "y">>,
      <<"datahub", SEP, "space2", SEP, "x">>,
      <<"datahub", SEP, "space2", SEP, "y">> }

UpdateModels == {DictVal([type |-> "file", path |-> p]) : p \in PairPaths}

Update ==
    /\ pc = "ready"
    /\ \E path \in PairPaths : \E model \in UpdateModels : \E resp \in Answers("update", path) :
        Complete([op |-> "update", model |-> model, path |-> path],
                 update(model, path, Env(resp)))

RenameRequest(op, old_path, new_path) ==
    [op |-> op, old_path |-> old_path, new_path |-> new_path]

RenameFile ==
    /\ pc = "ready"
    /\ \E old_path \in PairPaths : \E new_path \in PairPaths :
        \E resp \in Answers("rename_file", old_path) :
            Complete(RenameRequest("rename_file", old_path, new_path),
                     rename_file(old_path, new_path, Env(resp)))

Rename ==
    /\ pc = "ready"
    /\ \E old_path \in PairPaths : \E new_path \in PairPaths :
        \E resp \in Answers("rename", old_path) :
            Complete(RenameRequest("rename", old_path, new_path),
                     rename(old_path, new_path, Env(resp)))

\* the caller takes the result; the router keeps nothing of the call
TakeResult ==
    /\ pc = "returned"
    /\ pc' = "ready"
    /\ request' = NoRequest
    /\ calls' = <<>>
    /\ result' = Return(NoneVal)
    /\ UNCHANGED <<filesystem_scheme, managers, instantiated>>

Next ==
    \/ InitSuper \/ InitCheck \/ InitMount \/ InitDone
    \/ DirExists \/ IsHidden \/ FileExists \/ Exists
    \/ Get \/ Save \/ Update \/ Delete
    \/ CreateCheckpoint \/ ListCheckpoints \/ RestoreCheckpoint \/ DeleteCheckpoint
    \/ RenameFile \/ Rename
    \/ TakeResult

Spec == Init /\ [][Next]_vars

----------------------------------------------------------------------------
(* Vocabulary of the properties *)

Returned == pc = "returned"

SinglePathOps ==
    {"dir_exists", "is_hidden", "file_exists", "exists", "get", "save", "delete",
     "create_checkpoint", "list_checkpoints", "restore_checkpoint", "delete_checkpoint"}

RenameOps == {"rename", "rename_file"}

\* the segments of a path, surrounding separators dropped
Segments(path) == Split(Strip(path))

\* path lies under the mount named m: virtualPrefix/m[/...]
UnderMount(path, m) ==
    /\ Len(Segments(path)) >= 2
    /\ Segments(path)[1] = mixed_path
    /\ Segments(path)[2] = m

\* the segments after the mount name, rejoined with the separator
InnerPath(path) == Join(SubSeq(Segments(path), 3, Len(Segments(path))))

\* the index of the scheme entries named m
SchemeIndexes(m) == {i \in DOMAIN filesystem_scheme : filesystem_scheme[i] = m}

Mounted(m) == SchemeIndexes(m) # {}

\* the path argument of a backend call, keyword or last positional
CallPath(c) ==
    IF \E kv \in c.kwargs : kv[1] = "path"
    THEN (CHOOSE kv \in c.kwargs : kv[1] = "path")[2]
    ELSE c.args[Len(c.args)]

\* the other arguments of a backend call
CallOthers(c) ==
    IF \E kv \in c.kwargs : kv[1] = "path"
    THEN c.args
    ELSE SubSeq(c.args, 1, Len(c.args) - 1)

CallExtra(c) == {kv \in c.kwargs : kv[1] # "path"}

\* the arguments of the request besides its path
RequestOthers == IF request.other = NoneVal THEN <<>> ELSE <<request.other>>

StartsWith(p, prefix) ==
    Len(p) >= Len(prefix) /\ SubSeq(p, 1, Len(prefix)) = prefix

\* every path of a returned value (its own, its content's entries') starts with prefix
PathsStartWith(v, prefix) ==
    v.tag = "dict" =>
        /\ "path" \in DOMAIN v.d => StartsWith(v.d.path, prefix)
        /\ ("content" \in DOMAIN v.d /\ v.d.content.tag = "list") =>
                \A i \in DOMAIN v.d.content.items :
                    "path" \in DOMAIN v.d.content.items[i]
                        => StartsWith(v.d.content.items[i].path, prefix)

CrossMountError == Raise("ValueError", "router")

----------------------------------------------------------------------------
(* C1: rename, rename_file and update whose two paths resolve to different *)
(* backends (two mounts, or a mount and the default) fail with the         *)
(* cross-mount error and call no backend.                                  *)

CrossMountRejected ==
    Returned =>
        /\ (request.op \in RenameOps
                /\ Resolve(request.old_path) # Resolve(request.new_path))
            => (result = CrossMountError /\ calls = <<>>)
        /\ (request.op = "update"
                /\ Resolve(request.model.d.path) # Resolve(request.path))
            => (result = CrossMountError /\ calls = <<>>)

CrossMountRejected_witness ==
    /\ Returned
    /\ request.op = "update"
    /\ Resolve(request.model.d.path) # NoManager
    /\ Resolve(request.path) # NoManager
    /\ Resolve(request.model.d.path) # Resolve(request.path)
    /\ result = CrossMountError

(* C2: rename of virtualPrefix/m/a to virtualPrefix/m/b, two different     *)
(* names under the same mount m, is not rejected: mount m's rename is      *)
(* called once with both paths stripped of virtualPrefix/m, in order, and  *)
(* its result is returned unmodified.                                      *)

SameMountRenameDelegates ==
    \A m \in MountNames :
        (/\ Returned
         /\ request.op = "rename"
         /\ Mounted(m)
         /\ UnderMount(request.old_path, m)
         /\ UnderMount(request.new_path, m)
         /\ Len(InnerPath(request.old_path)) > 0
         /\ Len(InnerPath(request.new_path)) > 0
         /\ InnerPath(request.old_path) # InnerPath(request.new_path))
        => /\ result # CrossMountError
           /\ Len(calls) = 1
           /\ calls[1].target \in {Manager(i) : i \in SchemeIndexes(m)}
           /\ calls[1].op = "rename"
           /\ calls[1].args = <<StrVal(InnerPath(request.old_path)),
                                StrVal(InnerPath(request.new_path))>>
           /\ result = calls[1].answer

(* C3: rename of two distinct paths outside the virtual prefix, which     *)
(* both resolve to no mounted manager, does not raise the cross-mount      *)
(* error: the default backend's rename is called with both paths and its   *)
(* result returned.                                                        *)

DefaultRenameDelegates ==
    (/\ Returned
     /\ request.op = "rename"
     /\ request.old_path # request.new_path
     /\ Len(Strip(request.old_path)) > 0
     /\ Len(Strip(request.new_path)) > 0
     /\ Segments(request.old_path)[1] # mixed_path
     /\ Segments(request.new_path)[1] # mixed_path
     /\ Resolve(request.old_path) = NoManager
     /\ Resolve(request.new_path) = NoManager)
    => /\ result # CrossMountError
       /\ Len(calls) = 1
       /\ calls[1].target = Super
       /\ calls[1].op = "rename"
       /\ calls[1].args = <<StrVal(request.old_path), StrVal(request.new_path)>>
       /\ result = calls[1].answer

(* C4: a single-path operation on virtualPrefix/m[/...], m a configured    *)
(* mount, calls the same-named operation of exactly m's manager, once,     *)
(* with the segments after m rejoined as its path and the other arguments  *)
(* unchanged; neither the default nor another mount is called.             *)

MountedDispatch ==
    \A m \in MountNames :
        (/\ Returned
         /\ request.op \in SinglePathOps
         /\ Mounted(m)
         /\ UnderMount(request.path, m))
        => /\ Len(calls) = 1
           /\ \A i \in SchemeIndexes(m) : calls[1].target = Manager(i)
           /\ calls[1].op = request.op
           /\ CallPath(calls[1]) = StrVal(InnerPath(request.path))
           /\ CallOthers(calls[1]) = RequestOthers
           /\ CallExtra(calls[1]) = request.kwargs

MountedDispatch_witness ==
    /\ Returned
    /\ request.op = "file_exists"
    /\ Len(filesystem_scheme) = 2
    /\ UnderMount(request.path, <<"space2">>)
    /\ InnerPath(request.path) = <<"x">>
    /\ Len(calls) = 1
    /\ calls[1].target = Manager(2)

(* C5: whatever record a mounted manager answers (its own path or its      *)
(* children's paths starting with a separator or empty included), every    *)
(* path of the record returned to the caller, its own and those of the     *)
(* entries under content, begins with virtualPrefix/m.                     *)

RewrittenPathsVirtual ==
    \A m \in MountNames :
        (/\ Returned
         /\ request.op \in SinglePathOps \cup {"update"}
         /\ Mounted(m)
         /\ UnderMount(request.path, m)
         /\ Len(calls) = 1
         /\ result.kind = "return")
        => PathsStartWith(result.value, mixed_path \o <<SEP>> \o m)

(* C6: a path whose leading segment is not the virtual prefix is forwarded *)
(* to the default backend as the exact string the caller passed,           *)
(* surrounding separators included, and the default backend's result is    *)
(* returned without rewriting.                                             *)

DefaultForwardExact ==
    (/\ Returned
     /\ request.op \in SinglePathOps \ {"restore_checkpoint", "delete_checkpoint"}
     /\ Len(Strip(request.path)) > 0
     /\ Segments(request.path)[1] # mixed_path)
    => /\ Len(calls) = 1
       /\ calls[1].target = Super
       /\ calls[1].op = request.op
       /\ CallPath(calls[1]) = StrVal(request.path)
       /\ result = calls[1].answer

\* the path the default backend is given for the caller's path
Normalised(op, path) ==
    IF op \in BoolOps \cup {"get"} THEN <<SEP>> \o Strip(path) ELSE Strip(path)

(* C6 as amended: for a path with a leading segment other than the virtual *)
(* prefix, the default backend's same-named operation is called once with  *)
(* the path trimmed of its surrounding separators (and a separator put in  *)
(* front by dir_exists, is_hidden, file_exists, exists and get), the other *)
(* arguments unchanged, and its result is returned without rewriting;      *)
(* restore_checkpoint and delete_checkpoint call nothing and raise         *)
(* AttributeError.                                                         *)

DefaultForwardNormalised ==
    (/\ Returned
     /\ request.op \in SinglePathOps
     /\ Len(Strip(request.path)) > 0
     /\ Segments(request.path)[1] # mixed_path)
    => IF request.op \in {"restore_checkpoint", "delete_checkpoint"}
       THEN calls = <<>> /\ result = Raise("AttributeError", "router")
       ELSE /\ Len(calls) = 1
            /\ calls[1].target = Super
            /\ calls[1].op = request.op
            /\ calls[1].args =
                    RequestOthers \o <<StrVal(Normalised(request.op, request.path))>>
            /\ calls[1].kwargs = request.kwargs
            /\ result = calls[1].answer

DefaultForwardNormalised_witness ==
    /\ Returned
    /\ request.op = "delete"
    /\ request.path = <<SEP, "x", SEP, "space1", SEP>>
    /\ Len(calls) = 1
    /\ calls[1].args = <<StrVal(<<"x", SEP, "space1">>)>>
    /\ result = Return(NoneVal)

(* C7: restore_checkpoint and delete_checkpoint on a path that resolves to *)
(* no mounted manager call the default backend's restore_checkpoint,       *)
(* respectively delete_checkpoint, with the same checkpoint id and path,   *)
(* and return its result or its error; they raise nothing of their own.    *)

CheckpointFallThrough ==
    (/\ Returned
     /\ request.op \in {"restore_checkpoint", "delete_checkpoint"}
     /\ Len(Strip(request.path)) > 0
     /\ Resolve(request.path) = NoManager)
    => /\ Len(calls) = 1
       /\ calls[1].target = Super
       /\ calls[1].op = request.op
       /\ calls[1].args[1] = request.other
       /\ calls[1].args[2] \in {StrVal(request.path), StrVal(Strip(request.path))}
       /\ result = calls[1].answer

\* the mounts whose get("/") answered
Fetched ==
    {i \in DOMAIN filesystem_scheme :
        \E j \in DOMAIN calls :
            calls[j].target = Manager(i) /\ calls[j].answer.kind = "return"}

\* what mount i's get("/") answered
RootOf(i) ==
    (CHOOSE c \in {calls[j] : j \in DOMAIN calls} : c.target = Manager(i)).answer.value.d

(* C8: get on the bare virtual prefix, when at least one mount's root      *)
(* fetch succeeds, returns a directory whose content has exactly one entry *)
(* per mount whose fetch succeeded (name the mount's, path                 *)
(* virtualPrefix/mount, content null) and none for a mount whose fetch     *)
(* failed, with last_modified the maximum and created the minimum of the   *)
(* last_modified timestamps of the mounts included.                        *)

MixedRootListing ==
    (/\ Returned
     /\ request.op = "get"
     /\ Strip(request.path) = mixed_path
     /\ Fetched # {})
    => /\ result.kind = "return"
       /\ result.value.tag = "dict"
       /\ LET root == result.value.d
              items == root.content.items
          IN  /\ root.type = "directory"
              /\ Len(items) = Cardinality(Fetched)
              /\ \A k \in DOMAIN items :
                    \E i \in Fetched :
                        /\ items[k].name = filesystem_scheme[i]
                        /\ items[k].path = mixed_path \o <<SEP>> \o filesystem_scheme[i]
                        /\ items[k].content = NoneVal
              /\ \A i \in Fetched :
                    \E k \in DOMAIN items : items[k].name = filesystem_scheme[i]
              /\ \A i \in Fetched : root.last_modified >= RootOf(i).last_modified
              /\ \E i \in Fetched : root.last_modified = RootOf(i).last_modified
              /\ \A i \in Fetched : root.created <= RootOf(i).last_modified
              /\ \E i \in Fetched : root.created = RootOf(i).last_modified

MixedRootListing_witness ==
    /\ Returned
    /\ request.op = "get"
    /\ request.path = mixed_path
    /\ Len(filesystem_scheme) = 2
    /\ Fetched = {1}
    /\ result.kind = "return"
    /\ Len(result.value.d.content.items) = 1
    /\ RootOf(1).created # RootOf(1).last_modified

(* C9: on the empty path and on the bare virtual prefix, with or without   *)
(* surrounding separators and whatever is mounted, dir_exists and exists   *)
(* return true, file_exists and is_hidden return false, and no backend is  *)
(* called.                                                                 *)

PrefixAlone ==
    (/\ Returned
     /\ request.op \in BoolOps
     /\ Strip(request.path) \in {<<>>, mixed_path})
    => /\ calls = <<>>
       /\ result = Return(BoolVal(request.op \in {"dir_exists", "exists"}))

PrefixAlone_witness ==
    /\ Returned
    /\ request.op = "file_exists"
    /\ request.path = <<SEP, "datahub", SEP>>
    /\ Len(filesystem_scheme) = 2
    /\ result = Return(BoolVal(FALSE))

\* two entries of the scheme share a name
SharedRoot ==
    \E i, j \in DOMAIN filesystem_scheme : i # j /\ filesystem_scheme[i] = filesystem_scheme[j]

NamedInstantiated == {k \in DOMAIN instantiated : instantiated[k] # Super}

(* C10: construction from a scheme in which two entries share a name fails *)
(* with the duplicate-mount error before any mounted manager is            *)
(* constructed; construction from distinct names does not fail, and once   *)
(* it is over every configured name resolves to its own manager.           *)

MountTableConstruction ==
    /\ SharedRoot => (pc \in {"new", "super", "failed"} /\ NamedInstantiated = {})
    /\ pc = "failed" =>
            /\ SharedRoot
            /\ result = Raise("ValueError", "router")
            /\ DOMAIN managers = {}
    /\ pc \in {"ready", "returned"} =>
            \A i \in DOMAIN filesystem_scheme :
                /\ _get_cm(mixed_path, <<filesystem_scheme[i]>>) = Manager(i)
                /\ \E k \in DOMAIN instantiated : instantiated[k] = Manager(i)

MountTableConstruction_witness ==
    /\ pc = "failed"
    /\ Len(filesystem_scheme) = 2
    /\ instantiated = <<Super>>
====
